---- MODULE Spec2Model ----
(***************************************************************************)
(* Model of bravia-serial-control: the frame codec                         *)
(* (bravia_serial_control/serial_protocol.py) and the device command layer *)
(* (bravia_serial_control/device.py), run against a serial line on which   *)
(* the display answers each request with an arbitrary byte sequence; and   *)
(* the request throttle of the REST surface (contrib/rest_api.py), run by   *)
(* concurrent request threads.                                             *)
(***************************************************************************)
EXTENDS Integers, Sequences, FiniteSets, TLC

VARIABLES
    pc,                     \* position of the caller: idle, sent, reply, payload, done
    op,                     \* the public operation in progress and its argument
    io,                     \* the calls made on serial_port, in order
    reply,                  \* the bytes the display put on the line for this request
    noise,                  \* index of the byte of the reply hit by line noise, 0 if none
    rx,                     \* the bytes on the line that no read has consumed yet
    initial_response_bytes, \* local of _get_read_request_response, kept across its reads
    result,                 \* how the public operation ended
    lock,                   \* rest_api.lock: the thread holding it, 0 when free
    last_request_time,      \* rest_api.last_request_time, NoTime for None
    now,                    \* the clock datetime.datetime.now() reads, in tenths of a second
    threads,                \* each request thread's position in wrapper and handler
    handler_returned_at     \* when a handler last returned normally, NoTime if none did

\* the state of the codec and of the command layer
codec_vars == <<pc, op, io, reply, noise, rx, initial_response_bytes, result>>

\* the state of the REST surface
rest_vars == <<lock, last_request_time, now, threads, handler_returned_at>>

vars == <<codec_vars, rest_vars>>

----------------------------------------------------------------------------
(* Bounds of the model.                                                    *)

\* longest payload of a write request that is enumerated byte by byte
MaxPayloadLen == 2
\* longest payload of a reply that is enumerated byte by byte
MaxReplyLen == 3
\* longest payload of a reply that line noise is applied to
MaxNoisyLen == 2
\* number of request threads of the REST surface
NThreads == 2
\* the clock stops at this time, in tenths of a second
MaxTime == 8

----------------------------------------------------------------------------
(* Program constants.                                                      *)

BRAVIA_READ_REQUEST_HEADER_BYTE == 131
BRAVIA_WRITE_REQUEST_HEADER_BYTE == 140
BRAVIA_REQUEST_CATEGORY_BYTE == 0
BRAVIA_RESPONSE_HEADER_BYTE == 112
BRAVIA_POWER_STATE_FUNCTION_BYTE == 0
BRAVIA_INPUT_MODE_FUNCTION_BYTE == 2
BRAVIA_PICTURE_MODE_FUNCTION_BYTE == 32
BRAVIA_SET_PICTURE_MODE_DIRECT_BYTE == 1
\* the filler byte of a read request
READ_FILLER_BYTE == 255
\* the largest value of the length byte of a write request
MAX_MESSAGE_LENGTH_BYTE == 255
\* the size of the first read of a read response, and of a write acknowledgement
RESPONSE_HEAD_SIZE == 3
\* COMMAND_INTERVAL_SECS, 0.5 s, in tenths of a second
COMMAND_INTERVAL == 5
\* last_request_time = None, and a time not set
NoTime == -1
\* the lock held by no thread
NoThread == 0

PictureMode ==
    [VIVID |-> 0, STANDARD |-> 1, CINEMA_HOME |-> 2, CUSTOM |-> 3,
     CINEMA_PRO |-> 6, SPORTS |-> 7, GAME |-> 8, GRAPHICS |-> 9]

InputMode ==
    [SCART_1 |-> 33, SCART_2 |-> 34, SCART_3 |-> 35,
     COMPONENT_1 |-> 49, COMPONENT_2 |-> 50, COMPONENT_3 |-> 51,
     HDMI_1 |-> 65, HDMI_2 |-> 66, HDMI_3 |-> 67, HDMI_4 |-> 68, HDMI_5 |-> 69,
     PC |-> 81, SHARED_INPUT |-> 113]

----------------------------------------------------------------------------
(* Bytes, sequences and Python's operators on them.                        *)

Byte == 0..255

Min(a, b) == IF a < b THEN a ELSE b

\* s[:n]
Take(s, n) == SubSeq(s, 1, Min(n, Len(s)))

\* s[n:]
Drop(s, n) == SubSeq(s, Min(n, Len(s)) + 1, Len(s))

\* s[:-1]
ButLast(s) == SubSeq(s, 1, Len(s) - 1)

\* n copies of b
Fill(n, b) == [i \in 1..n |-> b]

RECURSIVE SeqsUpTo(_, _)
SeqsUpTo(S, n) ==
    IF n = 0 THEN {<<>>}
    ELSE LET shorter == SeqsUpTo(S, n - 1)
         IN  shorter \cup {Append(s, b) : s \in {t \in shorter : Len(t) = n - 1}, b \in S}

\* sum(s), halving s to keep the evaluation shallow
RECURSIVE Sum(_)
Sum(s) ==
    IF Len(s) = 0 THEN 0
    ELSE IF Len(s) = 1 THEN s[1]
    ELSE Sum(SubSeq(s, 1, Len(s) \div 2)) + Sum(SubSeq(s, Len(s) \div 2 + 1, Len(s)))

\* a & b on non-negative integers
RECURSIVE BitAnd(_, _)
BitAnd(a, b) ==
    IF a = 0 \/ b = 0 THEN 0
    ELSE (a % 2) * (b % 2) + 2 * BitAnd(a \div 2, b \div 2)

\* a | b on non-negative integers
RECURSIVE BitOr(_, _)
BitOr(a, b) ==
    IF a = 0 THEN b
    ELSE IF b = 0 THEN a
    ELSE (IF a % 2 = 1 \/ b % 2 = 1 THEN 1 ELSE 0) + 2 * BitOr(a \div 2, b \div 2)

\* a << k
ShiftLeft(a, k) == a * (2 ^ k)

\* a >> k
ShiftRight(a, k) == a \div (2 ^ k)

----------------------------------------------------------------------------
(* Outcomes of a call: a returned value or a raised exception.             *)

NoResult == [kind |-> "none", exc |-> "", msg |-> "", arg |-> -1, value |-> <<>>]

Return(v) == [kind |-> "return", exc |-> "", msg |-> "", arg |-> -1, value |-> v]

Raise(e, m, a) == [kind |-> "raise", exc |-> e, msg |-> m, arg |-> a, value |-> <<>>]

\* an index past the end of a bytes object
IndexError == Raise("IndexError", "index out of range", -1)

\* what serial_port.write and serial_port.read leave in the log
WriteEvent(data) == [call |-> "write", size |-> Len(data), data |-> data]

ReadEvent(n, data) == [call |-> "read", size |-> n, data |-> data]

----------------------------------------------------------------------------
(* serial_protocol.py: the pure parts of the frame codec.                  *)

\* no exception: execution goes on
Pass == NoResult

validate_function_byte(function_byte) ==
    IF function_byte < 0 \/ function_byte > 255
    THEN \* the message's f-string names `function`, which is not defined
         Raise("NameError", "name 'function' is not defined", -1)
    ELSE Pass

calculate_checksum(payload) == BitAnd(Sum(payload), 255)

\* the checksum check that computes both checksums and never raises
validate_payload_checksum_never_raises(payload_with_checksum) ==
    LET expected_checksum == calculate_checksum(ButLast(payload_with_checksum))
        actual_checksum == payload_with_checksum[Len(payload_with_checksum)]
    IN  IF expected_checksum # actual_checksum THEN Pass ELSE Pass

validate_payload_checksum(payload_with_checksum) ==
    LET expected_checksum == calculate_checksum(ButLast(payload_with_checksum))
        actual_checksum == payload_with_checksum[Len(payload_with_checksum)]
    IN  IF expected_checksum # actual_checksum
        THEN Raise("RuntimeError", "Received invalid response checksum from Bravia",
                   actual_checksum)
        ELSE Pass

error_messages ==
    [a \in 1..4 |->
        CASE a = 1 -> "Limit Over (Abnormal End - over maximum value)"
          [] a = 2 -> "Limit Over (Abnormal End - under minimum value)"
          [] a = 3 -> "Command Canceled (Abnormal End)"
          [] a = 4 -> "Parse Error (Data Format Error)"]

\* the answer check that lets the codes outside the table through
validate_response_answer_byte_table_only(response_answer) ==
    IF response_answer = 0
    THEN Pass
    ELSE IF response_answer \in DOMAIN error_messages
         THEN Raise("RuntimeError", error_messages[response_answer], -1)
         ELSE Pass

validate_response_answer_byte(response_answer) ==
    IF response_answer = 0
    THEN Pass
    ELSE IF response_answer \in DOMAIN error_messages
         THEN Raise("RuntimeError", error_messages[response_answer], -1)
         ELSE Raise("RuntimeError", "Unrecognized response answer", response_answer)

\* the read request with the function byte after the filler bytes
read_request_message_filler_first(function_byte) ==
    LET message == <<BRAVIA_READ_REQUEST_HEADER_BYTE, BRAVIA_REQUEST_CATEGORY_BYTE,
                     READ_FILLER_BYTE, READ_FILLER_BYTE, function_byte>>
    IN  Append(message, calculate_checksum(message))

\* request_read: the message handed to serial_port.write
read_request_message(function_byte) ==
    LET message == <<BRAVIA_READ_REQUEST_HEADER_BYTE, BRAVIA_REQUEST_CATEGORY_BYTE,
                     function_byte, READ_FILLER_BYTE, READ_FILLER_BYTE>>
    IN  Append(message, calculate_checksum(message))

\* the size check that compares the payload length, not the length byte
validate_payload_size_payload_only(payload) ==
    IF Len(payload) > MAX_MESSAGE_LENGTH_BYTE
    THEN Raise("ValueError", "Payload is too large", Len(payload))
    ELSE Pass

\* request_write: the size check on the payload
validate_payload_size(payload) ==
    LET message_length_byte == Len(payload) + 1
    IN  IF message_length_byte > MAX_MESSAGE_LENGTH_BYTE
        THEN Raise("ValueError", "Payload is too large", Len(payload))
        ELSE Pass

\* the write request whose length byte leaves the checksum byte out
write_request_message_short_length(function_byte, payload) ==
    LET message_length_byte == Len(payload)
        message == <<BRAVIA_WRITE_REQUEST_HEADER_BYTE, BRAVIA_REQUEST_CATEGORY_BYTE,
                     function_byte, message_length_byte>> \o payload
    IN  Append(message, calculate_checksum(message))

\* request_write: the message handed to serial_port.write
write_request_message(function_byte, payload) ==
    LET message_length_byte == Len(payload) + 1
        message == <<BRAVIA_WRITE_REQUEST_HEADER_BYTE, BRAVIA_REQUEST_CATEGORY_BYTE,
                     function_byte, message_length_byte>> \o payload
    IN  Append(message, calculate_checksum(message))

\* the first half of _get_read_request_response checking the answer byte before
\* the header byte
read_response_head_answer_first(initial) ==
    IF Len(initial) < 2 THEN IndexError
    ELSE IF validate_response_answer_byte(initial[2]).kind = "raise"
    THEN validate_response_answer_byte(initial[2])
    ELSE IF initial[1] # BRAVIA_RESPONSE_HEADER_BYTE
    THEN Raise("RuntimeError", "Received invalid response header from Bravia", initial[1])
    ELSE IF Len(initial) < 3 THEN IndexError
    ELSE Pass

\* the first half of _get_read_request_response leaving the answer byte unchecked
read_response_head_answer_unchecked(initial) ==
    IF Len(initial) < 1 THEN IndexError
    ELSE IF initial[1] # BRAVIA_RESPONSE_HEADER_BYTE
    THEN Raise("RuntimeError", "Received invalid response header from Bravia", initial[1])
    ELSE IF Len(initial) < 3 THEN IndexError
    ELSE Pass

\* _get_read_request_response, from the first read to the payload length:
\* Pass when the payload is to be read next
read_response_head(initial) ==
    IF Len(initial) < 1 THEN IndexError
    ELSE IF initial[1] # BRAVIA_RESPONSE_HEADER_BYTE
    THEN Raise("RuntimeError", "Received invalid response header from Bravia", initial[1])
    ELSE IF Len(initial) < 2 THEN IndexError
    ELSE IF validate_response_answer_byte(initial[2]).kind = "raise"
    THEN validate_response_answer_byte(initial[2])
    ELSE IF Len(initial) < 3 THEN IndexError
    ELSE Pass

\* the second half of _get_read_request_response returning the checksum byte too
read_response_payload_unstripped(initial, payload_with_checksum) ==
    LET payload_length == initial[3]
    IN  IF Len(payload_with_checksum) # payload_length
        THEN Raise("RuntimeError", "Received payload with unexpected length",
                   Len(payload_with_checksum))
        ELSE IF validate_payload_checksum(initial \o payload_with_checksum).kind = "raise"
        THEN validate_payload_checksum(initial \o payload_with_checksum)
        ELSE Return(payload_with_checksum)

\* _get_read_request_response, from the second read to the return
read_response_payload(initial, payload_with_checksum) ==
    LET payload_length == initial[3]
    IN  IF Len(payload_with_checksum) # payload_length
        THEN Raise("RuntimeError", "Received payload with unexpected length",
                   Len(payload_with_checksum))
        ELSE IF validate_payload_checksum(initial \o payload_with_checksum).kind = "raise"
        THEN validate_payload_checksum(initial \o payload_with_checksum)
        ELSE Return(ButLast(payload_with_checksum))

\* _get_write_request_response checking the answer byte before the checksum
write_response_answer_first(raw_response) ==
    IF Len(raw_response) # RESPONSE_HEAD_SIZE
    THEN Raise("ValueError", "Expected 3 bytes in Bravia response", Len(raw_response))
    ELSE IF raw_response[1] # BRAVIA_RESPONSE_HEADER_BYTE
    THEN Raise("ValueError", "Received invalid response header from Bravia",
               raw_response[1])
    ELSE IF validate_response_answer_byte(raw_response[2]).kind = "raise"
    THEN validate_response_answer_byte(raw_response[2])
    ELSE IF validate_payload_checksum(raw_response).kind = "raise"
    THEN validate_payload_checksum(raw_response)
    ELSE Return("None")

\* _get_write_request_response, after its read
write_response(raw_response) ==
    IF Len(raw_response) # RESPONSE_HEAD_SIZE
    THEN Raise("ValueError", "Expected 3 bytes in Bravia response", Len(raw_response))
    ELSE IF raw_response[1] # BRAVIA_RESPONSE_HEADER_BYTE
    THEN Raise("ValueError", "Received invalid response header from Bravia",
               raw_response[1])
    ELSE IF validate_payload_checksum(raw_response).kind = "raise"
    THEN validate_payload_checksum(raw_response)
    ELSE IF validate_response_answer_byte(raw_response[2]).kind = "raise"
    THEN validate_response_answer_byte(raw_response[2])
    ELSE Return("None")

\* _get_read_request_response on a line holding `stream`
get_read_request_response(stream) ==
    LET initial == Take(stream, RESPONSE_HEAD_SIZE)
    IN  IF read_response_head(initial).kind = "raise"
        THEN read_response_head(initial)
        ELSE read_response_payload(initial, Take(Drop(stream, RESPONSE_HEAD_SIZE), initial[3]))

\* _get_write_request_response on a line holding `stream`
get_write_request_response(stream) == write_response(Take(stream, RESPONSE_HEAD_SIZE))

----------------------------------------------------------------------------
(* device.py: the payloads of the command layer and their decoding.        *)

\* get_power_mode, on the bytes request_read returned
get_power_mode(response_bytes) ==
    IF Len(response_bytes) < 1 THEN IndexError
    ELSE IF response_bytes[1] = 0 THEN Return(FALSE)
    ELSE IF response_bytes[1] = 1 THEN Return(TRUE)
    ELSE Raise("ValueError", "Got unexpected power state byte from Bravia",
               response_bytes[1])

\* the power payload with on and off exchanged
set_power_mode_inverted(power_mode) == << IF power_mode THEN 0 ELSE 1 >>

\* set_power_mode: the payload of its write request
set_power_mode(power_mode) == << IF power_mode THEN 1 ELSE 0 >>

\* the picture mode payload without the direct-selection byte
set_picture_mode_code_only(picture_mode) == <<PictureMode[picture_mode]>>

\* set_picture_mode: the payload of its write request
set_picture_mode(picture_mode) ==
    <<BRAVIA_SET_PICTURE_MODE_DIRECT_BYTE, PictureMode[picture_mode]>>

\* InputMode(value): the member with that value, or ValueError
InputModeOf(value) ==
    IF \E m \in DOMAIN InputMode : InputMode[m] = value
    THEN Return(CHOOSE m \in DOMAIN InputMode : InputMode[m] = value)
    ELSE Raise("ValueError", "is not a valid InputMode", value)

\* get_input_mode, on the bytes request_read returned
get_input_mode(response_bytes) ==
    IF Len(response_bytes) < 2 THEN IndexError
    ELSE InputModeOf(BitOr(ShiftLeft(BitAnd(response_bytes[1], 15), 4),
                           BitAnd(response_bytes[2], 15)))

\* the input mode payload with the type nibble left unshifted
set_input_mode_unshifted(input_mode) ==
    LET byte0 == BitAnd(InputMode[input_mode], 240)
        byte1 == BitAnd(InputMode[input_mode], 15)
    IN  <<byte0, byte1>>

\* set_input_mode: the payload of its write request
set_input_mode(input_mode) ==
    LET byte0 == ShiftRight(BitAnd(InputMode[input_mode], 240), 4)
        byte1 == BitAnd(InputMode[input_mode], 15)
    IN  <<byte0, byte1>>

\* the public operation answering a default when the codec raised
caller_result_error_swallowed(name, r) ==
    IF r.kind = "return" /\ name = "get_power_mode" THEN get_power_mode(r.value)
    ELSE IF r.kind = "return" /\ name = "get_input_mode" THEN get_input_mode(r.value)
    ELSE IF r.kind = "raise" /\ name = "get_power_mode" THEN Return(FALSE)
    ELSE r

\* what the public operation makes of request_read's or request_write's outcome
caller_result(name, r) ==
    IF r.kind = "return" /\ name = "get_power_mode" THEN get_power_mode(r.value)
    ELSE IF r.kind = "return" /\ name = "get_input_mode" THEN get_input_mode(r.value)
    ELSE r

----------------------------------------------------------------------------
(* The inputs of the public operations.                                    *)

\* function bytes a caller of the codec passes, two of them out of range
FunctionArgs == {-1, 0, 2, 32, 255, 256}

\* bytes of the payloads that are enumerated byte by byte
PayloadBytes == {0, 113, 255}

\* payloads a caller of request_write passes: the short ones, and long ones
\* around the largest the length byte can count
PayloadArgs ==
    SeqsUpTo(PayloadBytes, MaxPayloadLen)
        \cup {Fill(n, 255) : n \in {MAX_MESSAGE_LENGTH_BYTE - 1, MAX_MESSAGE_LENGTH_BYTE,
                                      MAX_MESSAGE_LENGTH_BYTE + 1}}

----------------------------------------------------------------------------
(* The display: what it may put on the line in answer to a request.        *)

\* a well-formed read response with answer byte a and payload p
ReadResponse(a, p) ==
    LET head == <<BRAVIA_RESPONSE_HEADER_BYTE, a, Len(p) + 1>> \o p
    IN  Append(head, BitAnd(Sum(head), 255))

\* a well-formed write acknowledgement with answer byte a
WriteAck(a) ==
    <<BRAVIA_RESPONSE_HEADER_BYTE, a, BitAnd(BRAVIA_RESPONSE_HEADER_BYTE + a, 255)>>

\* bytes of the payloads of the replies that are enumerated byte by byte
ReplyBytes == {0, 1, 2, 3, 4, 5, 7, 20, 113, 255}

\* values a byte of a faulty reply is replaced with
FaultBytes == {0, 1, 2, 3, 112, 113, 255}

Prefixes(f) == {SubSeq(f, 1, n) : n \in 0..Len(f)}

\* f with one byte replaced, or one byte appended
Replaced(f, B) ==
    {[f EXCEPT ![i] = b] : i \in 1..Len(f), b \in B} \cup {Append(f, b) : b \in B}

\* the replies whose faults are enumerated
FaultBase ==
    {ReadResponse(a, p) : a \in {0, 1}, p \in {<<>>, <<0>>, <<1, 113>>}}
        \cup {WriteAck(a) : a \in {0, 1}}

WellFormedReadResponses ==
    {ReadResponse(0, p) : p \in SeqsUpTo(ReplyBytes, MaxReplyLen)}
        \cup {ReadResponse(0, Fill(n, 255)) :
                n \in {MAX_MESSAGE_LENGTH_BYTE - 2, MAX_MESSAGE_LENGTH_BYTE - 1}}
        \cup {ReadResponse(a, p) : a \in Byte, p \in {<<>>, <<1>>}}

WellFormedWriteAcks == {WriteAck(a) : a \in Byte}

FaultyReplies ==
    UNION {Prefixes(f) \cup Replaced(f, FaultBytes) : f \in FaultBase}
        \cup {<<BRAVIA_RESPONSE_HEADER_BYTE, a, BitAnd(BRAVIA_RESPONSE_HEADER_BYTE + a + 1, 255)>> :
                a \in Byte}

\* what the display may answer to a read request, and to a write request
ReadReplies == WellFormedReadResponses \cup FaultyReplies

WriteReplies == WellFormedWriteAcks \cup FaultyReplies

----------------------------------------------------------------------------
(* contrib/rest_api.py: the request threads and the throttle's arithmetic. *)

Threads == 1..NThreads

\* a thread outside wrapper(): no request, nothing computed, no sleep
IdleThread == [pc |-> "idle", secs_to_wait |-> 0, wake |-> NoTime]

\* a lock that never blocks
can_acquire_always(l) == TRUE

\* `with lock:` enters only while no thread holds the lock
can_acquire(l) == l = NoThread

\* secs_since_last_request < COMMAND_INTERVAL_SECS, with last_request_time not None
must_throttle(last, clock) == last # NoTime /\ clock - last < COMMAND_INTERVAL

\* a sleep of the time already passed, not of the time that remains
secs_to_wait_elapsed(secs_since_last_request) == secs_since_last_request

\* secs_to_wait, from secs_since_last_request
secs_to_wait(secs_since_last_request) == COMMAND_INTERVAL - secs_since_last_request

----------------------------------------------------------------------------
(* The state machine.                                                      *)

Init ==
    /\ pc = "idle"
    /\ op = [name |-> "", kind |-> "", function_byte |-> -1, arg |-> <<>>]
    /\ io = <<>>
    /\ reply = <<>>
    /\ noise = 0
    /\ rx = <<>>
    /\ initial_response_bytes = <<>>
    /\ result = NoResult
    /\ lock = NoThread
    /\ last_request_time = NoTime
    /\ now = 0
    /\ threads = [t \in Threads |-> IdleThread]
    /\ handler_returned_at = NoTime

\* the operation ends: the public operation returns or raises
Finish(name, r) ==
    /\ pc' = "done"
    /\ result' = caller_result(name, r)

\* BraviaSerialPort.request_read, up to the return of serial_port.write
request_read(name, arg, function_byte) ==
    /\ op' = [name |-> name, kind |-> "read", function_byte |-> function_byte, arg |-> arg]
    /\ IF validate_function_byte(function_byte).kind = "raise"
       THEN /\ Finish(name, validate_function_byte(function_byte))
            /\ UNCHANGED io
       ELSE /\ io' = Append(io, WriteEvent(read_request_message(function_byte)))
            /\ pc' = "sent"
            /\ UNCHANGED result
    /\ UNCHANGED <<reply, noise, rx, initial_response_bytes>>
    /\ UNCHANGED rest_vars

\* BraviaSerialPort.request_write, up to the return of serial_port.write
request_write(name, arg, function_byte, payload) ==
    /\ op' = [name |-> name, kind |-> "write", function_byte |-> function_byte, arg |-> arg]
    /\ IF validate_function_byte(function_byte).kind = "raise"
       THEN /\ Finish(name, validate_function_byte(function_byte))
            /\ UNCHANGED io
       ELSE IF validate_payload_size(payload).kind = "raise"
       THEN /\ Finish(name, validate_payload_size(payload))
            /\ UNCHANGED io
       ELSE /\ io' = Append(io, WriteEvent(write_request_message(function_byte, payload)))
            /\ pc' = "sent"
            /\ UNCHANGED result
    /\ UNCHANGED <<reply, noise, rx, initial_response_bytes>>
    /\ UNCHANGED rest_vars

\* a caller of the codec reads function byte f
RequestRead(F) ==
    /\ pc = "idle"
    /\ \E f \in F : request_read("request_read", <<>>, f)

\* a caller of the codec writes payload p to function byte f
RequestWrite(F, P) ==
    /\ pc = "idle"
    /\ \E f \in F, p \in P : request_write("request_write", p, f, p)

GetPowerMode ==
    /\ pc = "idle"
    /\ request_read("get_power_mode", <<>>, BRAVIA_POWER_STATE_FUNCTION_BYTE)

SetPowerMode ==
    /\ pc = "idle"
    /\ \E power_mode \in BOOLEAN :
           request_write("set_power_mode", power_mode, BRAVIA_POWER_STATE_FUNCTION_BYTE,
                         set_power_mode(power_mode))

SetPictureMode ==
    /\ pc = "idle"
    /\ \E picture_mode \in DOMAIN PictureMode :
           request_write("set_picture_mode", picture_mode, BRAVIA_PICTURE_MODE_FUNCTION_BYTE,
                         set_picture_mode(picture_mode))

GetInputMode ==
    /\ pc = "idle"
    /\ request_read("get_input_mode", <<>>, BRAVIA_INPUT_MODE_FUNCTION_BYTE)

SetInputMode ==
    /\ pc = "idle"
    /\ \E input_mode \in DOMAIN InputMode :
           request_write("set_input_mode", input_mode, BRAVIA_INPUT_MODE_FUNCTION_BYTE,
                         set_input_mode(input_mode))

\* the display answers the request (with nothing, when it stays silent)
DeviceRespond(R, W) ==
    /\ pc = "sent"
    /\ \E r \in (IF op.kind = "read" THEN R ELSE W) :
        /\ reply' = r
        /\ rx' = r
    /\ pc' = "reply"
    /\ UNCHANGED <<op, io, noise, initial_response_bytes, result>>
    /\ UNCHANGED rest_vars

\* noise on the line changes one byte of the reply before it is read
LineNoise ==
    /\ pc = "reply"
    /\ noise = 0
    /\ \E i \in 1..Len(rx) :
        /\ noise' = i
        /\ \E b \in Byte \ {rx[i]} : rx' = [rx EXCEPT ![i] = b]
    /\ UNCHANGED <<pc, op, io, reply, initial_response_bytes, result>>
    /\ UNCHANGED rest_vars

\* _get_read_request_response: serial_port.read(3) and the checks on its bytes
GetReadRequestResponseHead ==
    /\ pc = "reply"
    /\ op.kind = "read"
    /\ LET data == Take(rx, RESPONSE_HEAD_SIZE)
       IN  /\ rx' = Drop(rx, RESPONSE_HEAD_SIZE)
           /\ io' = Append(io, ReadEvent(RESPONSE_HEAD_SIZE, data))
           /\ initial_response_bytes' = data
           /\ IF read_response_head(data).kind = "raise"
              THEN Finish(op.name, read_response_head(data))
              ELSE pc' = "payload" /\ UNCHANGED result
    /\ UNCHANGED <<op, reply, noise>>
    /\ UNCHANGED rest_vars

\* _get_read_request_response: serial_port.read(payload_length) to the return
GetReadRequestResponsePayload ==
    /\ pc = "payload"
    /\ LET payload_length == initial_response_bytes[3]
           data == Take(rx, payload_length)
       IN  /\ rx' = Drop(rx, payload_length)
           /\ io' = Append(io, ReadEvent(payload_length, data))
           /\ Finish(op.name, read_response_payload(initial_response_bytes, data))
    /\ UNCHANGED <<op, reply, noise, initial_response_bytes>>
    /\ UNCHANGED rest_vars

\* _get_write_request_response: serial_port.read(3) to the return
GetWriteRequestResponse ==
    /\ pc = "reply"
    /\ op.kind = "write"
    /\ LET data == Take(rx, RESPONSE_HEAD_SIZE)
       IN  /\ rx' = Drop(rx, RESPONSE_HEAD_SIZE)
           /\ io' = Append(io, ReadEvent(RESPONSE_HEAD_SIZE, data))
           /\ Finish(op.name, write_response(data))
    /\ UNCHANGED <<op, reply, noise, initial_response_bytes>>
    /\ UNCHANGED rest_vars

\* the codec and the command layer against every reply of the display
Next ==
    \/ RequestRead(FunctionArgs)
    \/ RequestWrite(FunctionArgs, PayloadArgs)
    \/ GetPowerMode
    \/ SetPowerMode
    \/ SetPictureMode
    \/ GetInputMode
    \/ SetInputMode
    \/ DeviceRespond(ReadReplies, WriteReplies)
    \/ GetReadRequestResponseHead
    \/ GetReadRequestResponsePayload
    \/ GetWriteRequestResponse

Spec == Init /\ [][Next]_vars

----------------------------------------------------------------------------
(* The wire format for every function byte: the codec called with each     *)
(* function byte, the display answering well or not at all.                *)

WireReadReplies == {<<>>, ReadResponse(0, <<1>>)}

WireWriteReplies == {<<>>, WriteAck(0), WriteAck(3)}

NextWire ==
    \/ RequestRead(Byte \cup FunctionArgs)
    \/ RequestWrite(Byte \cup FunctionArgs, PayloadArgs)
    \/ DeviceRespond(WireReadReplies, WireWriteReplies)
    \/ GetReadRequestResponseHead
    \/ GetReadRequestResponsePayload
    \/ GetWriteRequestResponse

SpecWire == Init /\ [][NextWire]_vars

----------------------------------------------------------------------------
(* A noisy line: the display answers well, and noise may change one byte   *)
(* of the answer to any other value before the codec reads it.             *)

NoisyReadReplies ==
    {ReadResponse(0, p) : p \in SeqsUpTo(PayloadBytes, MaxNoisyLen)}
        \cup {ReadResponse(1, <<>>)}

NoisyWriteReplies == {WriteAck(0), WriteAck(1)}

NextNoise ==
    \/ RequestRead({BRAVIA_POWER_STATE_FUNCTION_BYTE, BRAVIA_INPUT_MODE_FUNCTION_BYTE})
    \/ RequestWrite({BRAVIA_POWER_STATE_FUNCTION_BYTE}, {<<0>>, <<1>>})
    \/ DeviceRespond(NoisyReadReplies, NoisyWriteReplies)
    \/ LineNoise
    \/ GetReadRequestResponseHead
    \/ GetReadRequestResponsePayload
    \/ GetWriteRequestResponse

SpecNoise == Init /\ [][NextNoise]_vars

----------------------------------------------------------------------------
(* The REST surface: each request thread runs wrapper() of                 *)
(* throttled_request around one route handler; the clock advances between  *)
(* any two steps.                                                          *)

\* thread t moves to position p
Goto(t, p) == threads' = [threads EXCEPT ![t].pc = p]

\* thread t leaves wrapper()
Leave(t) == threads' = [threads EXCEPT ![t] = IdleThread]

\* an HTTP request arrives and its thread reaches `with lock:`
Arrive(t) ==
    /\ threads[t].pc = "idle"
    /\ Goto(t, "waiting")
    /\ UNCHANGED <<lock, last_request_time, now, handler_returned_at>>
    /\ UNCHANGED codec_vars

\* the thread enters `with lock:`
Acquire(t) ==
    /\ threads[t].pc = "waiting"
    /\ can_acquire(lock)
    /\ lock' = t
    /\ Goto(t, "locked")
    /\ UNCHANGED <<last_request_time, now, handler_returned_at>>
    /\ UNCHANGED codec_vars

\* the thread reads the clock and decides whether to sleep, and for how long
CheckInterval(t) ==
    /\ threads[t].pc = "locked"
    /\ IF must_throttle(last_request_time, now)
       THEN threads' = [threads EXCEPT
                ![t].pc = "throttled",
                ![t].secs_to_wait = secs_to_wait(now - last_request_time)]
       ELSE Goto(t, "body")
    /\ UNCHANGED <<lock, last_request_time, now, handler_returned_at>>
    /\ UNCHANGED codec_vars

\* time.sleep(secs_to_wait) is called
Sleep(t) ==
    /\ threads[t].pc = "throttled"
    /\ threads' = [threads EXCEPT
            ![t].pc = "sleeping",
            ![t].wake = now + threads[t].secs_to_wait]
    /\ UNCHANGED <<lock, last_request_time, now, handler_returned_at>>
    /\ UNCHANGED codec_vars

\* time.sleep returns, no earlier than asked, and the handler is called
Wake(t) ==
    /\ threads[t].pc = "sleeping"
    /\ now >= threads[t].wake
    /\ Goto(t, "body")
    /\ UNCHANGED <<lock, last_request_time, now, handler_returned_at>>
    /\ UNCHANGED codec_vars

\* the handler has read the HTTP request and opens the serial port
HandlerOpenPort(t) ==
    /\ threads[t].pc = "body"
    /\ Goto(t, "open")
    /\ UNCHANGED <<lock, last_request_time, now, handler_returned_at>>
    /\ UNCHANGED codec_vars

\* the command's request is written to the port
HandlerWriteRequest(t) ==
    /\ threads[t].pc = "open"
    /\ Goto(t, "sent")
    /\ UNCHANGED <<lock, last_request_time, now, handler_returned_at>>
    /\ UNCHANGED codec_vars

\* the reply is read, the port is closed and the handler returns its response
HandlerReadReply(t) ==
    /\ threads[t].pc = "sent"
    /\ Goto(t, "returned")
    /\ handler_returned_at' = now
    /\ UNCHANGED <<lock, last_request_time, now>>
    /\ UNCHANGED codec_vars

\* the handler raises: abort(400), abort(405), a request without JSON, a
\* port that does not open, an error of the command; the exception leaves
\* `with lock:`, which releases the lock
HandlerRaise(t) ==
    /\ threads[t].pc \in {"body", "open", "sent"}
    /\ Leave(t)
    /\ lock' = NoThread
    /\ UNCHANGED <<last_request_time, now, handler_returned_at>>
    /\ UNCHANGED codec_vars

\* last_request_time = datetime.datetime.now()
Stamp(t) ==
    /\ threads[t].pc = "returned"
    /\ last_request_time' = now
    /\ Goto(t, "stamped")
    /\ UNCHANGED <<lock, now, handler_returned_at>>
    /\ UNCHANGED codec_vars

\* return return_value, which leaves `with lock:`
Release(t) ==
    /\ threads[t].pc = "stamped"
    /\ Leave(t)
    /\ lock' = NoThread
    /\ UNCHANGED <<last_request_time, now, handler_returned_at>>
    /\ UNCHANGED codec_vars

\* a tenth of a second passes
Tick ==
    /\ now < MaxTime
    /\ now' = now + 1
    /\ UNCHANGED <<lock, last_request_time, threads, handler_returned_at>>
    /\ UNCHANGED codec_vars

NextRest ==
    \/ \E t \in Threads : Arrive(t)
    \/ \E t \in Threads : Acquire(t)
    \/ \E t \in Threads : CheckInterval(t)
    \/ \E t \in Threads : Sleep(t)
    \/ \E t \in Threads : Wake(t)
    \/ \E t \in Threads : HandlerOpenPort(t)
    \/ \E t \in Threads : HandlerWriteRequest(t)
    \/ \E t \in Threads : HandlerReadReply(t)
    \/ \E t \in Threads : HandlerRaise(t)
    \/ \E t \in Threads : Stamp(t)
    \/ \E t \in Threads : Release(t)
    \/ Tick

SpecRest == Init /\ [][NextRest]_vars

----------------------------------------------------------------------------
(* Properties.                                                             *)

\* the operation was called with arguments the codec encodes
Encodable ==
    /\ op.function_byte \in Byte
    /\ op.name = "request_write" => Len(op.arg) < MAX_MESSAGE_LENGTH_BYTE

\* the calls on serial_port are one write of `frame`, then reads only
OneWriteThenReads(frame) ==
    /\ Len(io) >= 1
    /\ io[1] = WriteEvent(frame)
    /\ \A i \in 2..Len(io) : io[i].call = "read"

\* r is [0x70, 0x00, n, p..., c] with n = len(p) + 1 and c the sum of the rest mod 256
IsGoodReadResponse(r) ==
    /\ Len(r) >= 4
    /\ r[1] = 112
    /\ r[2] = 0
    /\ r[3] = Len(r) - 3
    /\ r[Len(r)] = Sum(SubSeq(r, 1, Len(r) - 1)) % 256

\* p of a good read response
ResponsePayload(r) == SubSeq(r, 4, Len(r) - 1)

\* C1: for every function byte f in 0..255, a read request writes exactly one
\* frame, [0x83, 0x00, f, 0xFF, 0xFF, c] with c = (0x83 + 0x00 + f + 0xFF + 0xFF)
\* mod 256, and every read of the reply comes after that write.
C1_ReadRequestFrame ==
    (pc # "idle" /\ op.kind = "read" /\ op.function_byte \in Byte) =>
        OneWriteThenReads(<<131, 0, op.function_byte, 255, 255,
                            (131 + 0 + op.function_byte + 255 + 255) % 256>>)

\* request_read(0xFF) wrote its frame, read the reply in two reads and returned
C1_Witness ==
    /\ pc = "done"
    /\ op.name = "request_read"
    /\ op.function_byte = 255
    /\ Len(io) = 3
    /\ io[1].data = <<131, 0, 255, 255, 255, 128>>
    /\ result.kind = "return"

\* C2: for every function byte f in 0..255 and every payload p of 0..254 bytes,
\* request_write(f, p) writes exactly the frame [0x8C, 0x00, f, len(p)+1, p..., c]
\* with c the sum of all preceding frame bytes mod 256.
C2_WriteRequestFrame ==
    (pc # "idle" /\ op.name = "request_write" /\ Encodable) =>
        LET p == op.arg
            body == <<140, 0, op.function_byte, Len(p) + 1>> \o p
        IN  OneWriteThenReads(Append(body, Sum(body) % 256))

\* request_write(0xFF, p) with the longest payload, 254 bytes, wrote its frame
\* with length byte 255 and was acknowledged
C2_Witness ==
    /\ pc = "done"
    /\ op.name = "request_write"
    /\ op.function_byte = 255
    /\ Len(op.arg) = 254
    /\ io[1].size = 259
    /\ io[1].data[4] = 255
    /\ result.kind = "return"

\* C3: when the reply to request_read is [0x70, 0x00, n, p..., c] with n = len(p)+1
\* and c the sum of all preceding reply bytes mod 256, request_read returns exactly p.
C3_ReadRoundTrip ==
    (pc = "done" /\ op.name = "request_read" /\ Encodable /\ IsGoodReadResponse(reply)) =>
        /\ result.kind = "return"
        /\ result.value = ResponsePayload(reply)

\* request_read returned the longest payload, 254 bytes
C3_Witness ==
    /\ pc = "done"
    /\ op.name = "request_read"
    /\ IsGoodReadResponse(reply)
    /\ Len(reply) = 258
    /\ result.kind = "return"
    /\ Len(result.value) = 254


\* the reply, as the display sent it, is one the operation accepts
Accepted ==
    IF op.kind = "read"
    THEN get_read_request_response(reply).kind = "return"
    ELSE get_write_request_response(reply).kind = "return"

\* noise changed the length byte of a read response to a smaller value
LengthByteLowered ==
    /\ op.kind = "read"
    /\ noise = 3
    /\ initial_response_bytes[3] < reply[3]

\* C4 as stated: an accepted response frame (read response or write
\* acknowledgement) is rejected with an error once any single byte of it,
\* checksum or not, is changed to a different value.
C4_AnyChangedByteRejected ==
    (pc = "done" /\ noise # 0 /\ Accepted) => result.kind = "raise"

\* C4, amended: an accepted response frame is rejected with an error once any
\* single byte of it is changed to a different value, unless the changed byte is
\* the length byte of a read response and its new value is smaller.
C4_ChangedByteRejected ==
    (pc = "done" /\ noise # 0 /\ Accepted /\ ~LengthByteLowered) => result.kind = "raise"

\* the checksum byte of an accepted read response was changed, and request_read
\* failed with the checksum error
C4_Witness ==
    /\ pc = "done"
    /\ op.kind = "read"
    /\ Accepted
    /\ noise = Len(reply)
    /\ Len(reply) = 6
    /\ result.kind = "raise"
    /\ result.msg = "Received invalid response checksum from Bravia"

\* the error the display's answer byte a stands for
DeviceError(a) ==
    CASE a = 1 -> Raise("RuntimeError", "Limit Over (Abnormal End - over maximum value)", -1)
      [] a = 2 -> Raise("RuntimeError", "Limit Over (Abnormal End - under minimum value)", -1)
      [] a = 3 -> Raise("RuntimeError", "Command Canceled (Abnormal End)", -1)
      [] a = 4 -> Raise("RuntimeError", "Parse Error (Data Format Error)", -1)
      [] OTHER -> Raise("RuntimeError", "Unrecognized response answer", a)

SameError(r, e) ==
    /\ r.kind = e.kind
    /\ r.exc = e.exc
    /\ r.msg = e.msg
    /\ r.arg = e.arg

\* the reply reaches the check of its answer byte: a read response with the
\* response header, a write acknowledgement with the header and a right checksum
AnswerByteChecked ==
    IF op.kind = "read"
    THEN Len(reply) >= 2 /\ reply[1] = 112
    ELSE Len(reply) >= 3 /\ reply[1] = 112 /\ reply[3] = (reply[1] + reply[2]) % 256

\* C5: in read responses and write acknowledgements alike, only answer byte
\* 0x00 is a success: 0x01..0x04 fail with their device error, and every other
\* nonzero value fails with the generic device error carrying the raw code.
C5_AnswerByte ==
    (pc = "done" /\ Encodable) =>
        /\ result.kind = "return" => (Len(reply) >= 2 /\ reply[2] = 0)
        /\ (AnswerByteChecked /\ reply[2] # 0) => SameError(result, DeviceError(reply[2]))

\* a write acknowledgement with answer byte 0xFF and a right checksum failed
\* with the generic device error carrying 0xFF
C5_Witness ==
    /\ pc = "done"
    /\ op.kind = "write"
    /\ reply = <<112, 255, 111>>
    /\ result.kind = "raise"
    /\ result.msg = "Unrecognized response answer"
    /\ result.arg = 255

\* C6 as stated: get_power_mode issues a read with function byte 0x00, returns
\* false exactly for the payload [0x00] and true exactly for [0x01], and fails
\* with the 'unexpected value' decode error for every other payload.
C6_PowerModeDecode ==
    /\ (pc # "idle" /\ op.name = "get_power_mode") =>
            OneWriteThenReads(<<131, 0, 0, 255, 255, 129>>)
    /\ (pc = "done" /\ op.name = "get_power_mode" /\ IsGoodReadResponse(reply)) =>
            LET p == ResponsePayload(reply)
            IN  IF p = <<0>> THEN result.kind = "return" /\ result.value = FALSE
                ELSE IF p = <<1>> THEN result.kind = "return" /\ result.value = TRUE
                ELSE /\ result.kind = "raise"
                     /\ result.exc = "ValueError"
                     /\ result.msg = "Got unexpected power state byte from Bravia"

\* the InputMode whose code is v, if any
ModesWithCode(v) == {m \in DOMAIN InputMode : InputMode[m] = v}

\* C7 as stated: get_input_mode issues a read with function byte 0x02 and, for
\* a payload [b0, b1], returns the InputMode with code ((b0 & 0x0F) << 4) | (b1 & 0x0F);
\* when that code is no enumeration code, or the payload is not two bytes, it fails.
C7_InputModeDecode ==
    /\ (pc # "idle" /\ op.name = "get_input_mode") =>
            OneWriteThenReads(<<131, 0, 2, 255, 255, 131>>)
    /\ (pc = "done" /\ op.name = "get_input_mode" /\ IsGoodReadResponse(reply)) =>
            LET p == ResponsePayload(reply)
            IN  IF Len(p) = 2 /\ ModesWithCode((p[1] % 16) * 16 + (p[2] % 16)) # {}
                THEN /\ result.kind = "return"
                     /\ result.value \in ModesWithCode((p[1] % 16) * 16 + (p[2] % 16))
                ELSE result.kind = "raise"

\* the payload of the write request that was written
WrittenPayload == SubSeq(io[1].data, 5, Len(io[1].data) - 1)

\* C8: set_input_mode(m), m of code v, issues one write request with function
\* byte 0x02 and payload [v >> 4, v & 0x0F]; that payload, delivered as the payload
\* of a read response, makes get_input_mode return m.
C8_InputModeRoundTrip ==
    /\ (pc # "idle" /\ op.name = "set_input_mode") =>
            LET v == InputMode[op.arg]
                body == <<140, 0, 2, 3, (v \div 16), (v % 16)>>
            IN  /\ OneWriteThenReads(Append(body, Sum(body) % 256))
                /\ get_input_mode(WrittenPayload).kind = "return"
                /\ get_input_mode(WrittenPayload).value = op.arg
    /\ (pc = "done" /\ op.name = "get_input_mode" /\ IsGoodReadResponse(reply)) =>
            \A m \in DOMAIN InputMode :
                ResponsePayload(reply) = <<(InputMode[m] \div 16), (InputMode[m] % 16)>> =>
                    result.kind = "return" /\ result.value = m

\* set_input_mode(HDMI_2) wrote [0x8C, 0x00, 0x02, 0x03, 0x04, 0x02, 0x97] and was
\* acknowledged
C8_Witness ==
    /\ pc = "done"
    /\ op.name = "set_input_mode"
    /\ op.arg = "HDMI_2"
    /\ io[1].data = <<140, 0, 2, 3, 4, 2, 151>>
    /\ result.kind = "return"

\* C9: set_power_mode(on) issues one write request with function byte 0x00 and
\* payload [0x01] for on, [0x00] for off: the frame
\* [0x8C, 0x00, 0x00, 0x02, b, (0x8E + b) mod 256].
C9_SetPowerModeFrame ==
    (pc # "idle" /\ op.name = "set_power_mode") =>
        LET b == IF op.arg THEN 1 ELSE 0
        IN  OneWriteThenReads(<<140, 0, 0, 2, b, (142 + b) % 256>>)

\* set_power_mode(True) wrote [0x8C, 0x00, 0x00, 0x02, 0x01, 0x8F] and was
\* acknowledged
C9_Witness ==
    /\ pc = "done"
    /\ op.name = "set_power_mode"
    /\ op.arg = TRUE
    /\ io[1].data = <<140, 0, 0, 2, 1, 143>>
    /\ result.kind = "return"

\* the code of each picture mode
PictureCode ==
    [VIVID |-> 0, STANDARD |-> 1, CINEMA_HOME |-> 2, CUSTOM |-> 3,
     CINEMA_PRO |-> 6, SPORTS |-> 7, GAME |-> 8, GRAPHICS |-> 9]

\* C10: for each of the eight picture modes m, set_picture_mode(m) issues one
\* write request with function byte 0x20 and the payload [0x01, code(m)].
C10_SetPictureModeFrame ==
    /\ Cardinality(DOMAIN PictureMode) = 8
    /\ (pc # "idle" /\ op.name = "set_picture_mode") =>
            LET body == <<140, 0, 32, 3, 1, PictureCode[op.arg]>>
            IN  OneWriteThenReads(Append(body, Sum(body) % 256))

\* set_picture_mode(GRAPHICS) wrote [0x8C, 0x00, 0x20, 0x03, 0x01, 0x09, 0xB9] and
\* was acknowledged
C10_Witness ==
    /\ pc = "done"
    /\ op.name = "set_picture_mode"
    /\ op.arg = "GRAPHICS"
    /\ io[1].data = <<140, 0, 32, 3, 1, 9, 185>>
    /\ result.kind = "return"


\* C11: request_write accepts every payload of 0..254 bytes and, for every
\* payload of 255 or more bytes, fails with the size error before any I/O.
C11_PayloadSize ==
    (pc # "idle" /\ op.name = "request_write" /\ op.function_byte \in Byte) =>
        IF Len(op.arg) <= 254
        THEN /\ Len(io) >= 1
             /\ io[1].call = "write"
             /\ result.msg # "Payload is too large"
        ELSE /\ pc = "done"
             /\ io = <<>>
             /\ rx = <<>>
             /\ result.kind = "raise"
             /\ result.exc = "ValueError"
             /\ result.msg = "Payload is too large"

\* request_write with a 255-byte payload failed with the size error and no I/O
C11_Witness ==
    /\ pc = "done"
    /\ op.name = "request_write"
    /\ op.function_byte \in Byte
    /\ Len(op.arg) = 255
    /\ io = <<>>
    /\ result.msg = "Payload is too large"

\* C12 as stated: request_read and request_write with a function byte outside
\* 0..255 fail with the out-of-range (ValueError) encoding error, the kind of the
\* oversized-payload error, before any I/O.
C12_FunctionByteRange ==
    (pc # "idle" /\ op.function_byte \notin Byte) =>
        /\ pc = "done"
        /\ io = <<>>
        /\ result.kind = "raise"
        /\ result.exc = "ValueError"

\* some transport read returned fewer bytes than it asked for
ShortRead == \E i \in 1..Len(io) : io[i].call = "read" /\ Len(io[i].data) < io[i].size

LengthMismatchMessages ==
    {"Received payload with unexpected length", "Expected 3 bytes in Bravia response"}

\* C13 as stated: whenever a transport read returns fewer bytes than requested,
\* in the header read or the payload read of a read response or in the read of a
\* write acknowledgement, the operation fails with a length-mismatch error.
C13_ShortReadLengthError ==
    (pc = "done" /\ ShortRead) =>
        /\ result.kind = "raise"
        /\ result.msg \in LengthMismatchMessages

\* the display sent one response frame: a read response whose length byte
\* counts the bytes after it, or a three-byte write acknowledgement
OneResponseFrame ==
    IF op.kind = "read"
    THEN Len(reply) >= 3 /\ reply[3] = Len(reply) - 3
    ELSE Len(reply) = 3

\* C14 as stated: once the request frame is written, the operation returns or
\* fails only after the whole response frame, valid or invalid, has been
\* consumed: no byte of it is left unread.
C14_ResponseConsumed ==
    (pc = "done" /\ Len(io) >= 1 /\ OneResponseFrame) => rx = <<>>

CommandOperations ==
    {"get_power_mode", "set_power_mode", "set_picture_mode", "get_input_mode",
     "set_input_mode"}

\* what the codec makes of the reply
CodecOutcome ==
    IF op.kind = "read"
    THEN get_read_request_response(reply)
    ELSE get_write_request_response(reply)

NumberOfReads == Cardinality({i \in 1..Len(io) : io[i].call = "read"})

\* C15: each public operation of the command layer performs exactly one
\* exchange: one write of one request frame, then only the reads of its reply;
\* after a failure there is no retry, no second frame and no further read, and
\* the error reaches the caller.
C15_OneExchange ==
    (pc # "idle" /\ op.name \in CommandOperations) =>
        /\ Len(io) >= 1
        /\ io[1].call = "write"
        /\ \A i \in 2..Len(io) : io[i].call = "read"
        /\ pc = "done" =>
            /\ NumberOfReads =
                    IF op.kind = "write" THEN 1
                    ELSE IF read_response_head(Take(reply, 3)).kind = "raise" THEN 1
                    ELSE 2
            /\ CodecOutcome.kind = "raise" => SameError(result, CodecOutcome)

\* get_input_mode failed with the checksum error of its reply after one write
\* and two reads
C15_Witness ==
    /\ pc = "done"
    /\ op.name = "get_input_mode"
    /\ Len(io) = 3
    /\ io[1].call = "write"
    /\ result.kind = "raise"
    /\ result.msg = "Received invalid response checksum from Bravia"

\* the faults of a reply to a read request, each stated on the bytes received
HeaderFault == Len(reply) >= 1 /\ reply[1] # 112

AnswerFault == Len(reply) >= 2 /\ reply[2] # 0

LengthFault == Len(reply) >= 3 /\ Len(reply) - 3 < reply[3]

ChecksumFault ==
    /\ Len(reply) >= 3
    /\ Len(reply) - 3 >= reply[3]
    /\ LET segment == SubSeq(reply, 1, 3 + reply[3])
       IN  segment[Len(segment)] # Sum(SubSeq(segment, 1, Len(segment) - 1)) % 256

\* C16: request_read validates a reply in the order header byte, answer byte,
\* payload length, checksum, and reports the error of the first check that fails.
C16_ReadValidationOrder ==
    (pc = "done" /\ op.kind = "read" /\ op.function_byte \in Byte) =>
        /\ HeaderFault =>
                /\ result.kind = "raise"
                /\ result.msg = "Received invalid response header from Bravia"
                /\ result.arg = reply[1]
        /\ (~HeaderFault /\ AnswerFault) => SameError(result, DeviceError(reply[2]))
        /\ (~HeaderFault /\ ~AnswerFault /\ LengthFault) =>
                /\ result.kind = "raise"
                /\ result.msg = "Received payload with unexpected length"
        /\ (~HeaderFault /\ ~AnswerFault /\ ~LengthFault /\ ChecksumFault) =>
                /\ result.kind = "raise"
                /\ result.msg = "Received invalid response checksum from Bravia"

\* a reply with a wrong header, a nonzero answer and a wrong checksum was
\* reported as a header error
C16_Witness ==
    /\ pc = "done"
    /\ op.kind = "read"
    /\ HeaderFault
    /\ AnswerFault
    /\ ChecksumFault
    /\ result.msg = "Received invalid response header from Bravia"

\* C17: when the answer byte of a read response is nonzero, request_read fails
\* with the corresponding device error whatever the declared length and the
\* payload bytes are, without reading the payload and without verifying the
\* checksum.
C17_NonzeroAnswerShortCircuits ==
    (pc = "done" /\ op.kind = "read" /\ op.function_byte \in Byte
        /\ ~HeaderFault /\ AnswerFault) =>
        /\ SameError(result, DeviceError(reply[2]))
        /\ Len(io) = 2
        /\ io[2] = ReadEvent(3, Take(reply, 3))
        /\ rx = Drop(reply, 3)

\* a read response with answer byte 0x01, payload bytes and a wrong checksum
\* failed with the over-maximum error after the first read alone
C17_Witness ==
    /\ pc = "done"
    /\ op.kind = "read"
    /\ Len(reply) = 6
    /\ reply[1] = 112
    /\ reply[2] = 1
    /\ ChecksumFault
    /\ Len(io) = 2
    /\ Len(rx) = 3
    /\ result.msg = "Limit Over (Abnormal End - over maximum value)"

\* C18: request_write validates the three-byte acknowledgement in the order
\* byte count, header, checksum, answer byte, and succeeds only if all four
\* pass: a wrong checksum with a nonzero answer is reported as a checksum error.
C18_WriteValidationOrder ==
    (pc = "done" /\ op.kind = "write" /\ Len(io) >= 1) =>
        LET raw == SubSeq(reply, 1, IF Len(reply) < 3 THEN Len(reply) ELSE 3)
        IN  IF Len(raw) # 3
            THEN /\ result.kind = "raise"
                 /\ result.msg = "Expected 3 bytes in Bravia response"
            ELSE IF raw[1] # 112
            THEN /\ result.kind = "raise"
                 /\ result.exc = "ValueError"
                 /\ result.msg = "Received invalid response header from Bravia"
            ELSE IF raw[3] # (raw[1] + raw[2]) % 256
            THEN /\ result.kind = "raise"
                 /\ result.msg = "Received invalid response checksum from Bravia"
            ELSE IF raw[2] # 0
            THEN SameError(result, DeviceError(raw[2]))
            ELSE result.kind = "return"

\* an acknowledgement with a wrong checksum and answer byte 0x01 was reported
\* as a checksum error
C18_Witness ==
    /\ pc = "done"
    /\ op.kind = "write"
    /\ Len(reply) = 3
    /\ reply[1] = 112
    /\ reply[2] = 1
    /\ reply[3] # 113
    /\ result.kind = "raise"
    /\ result.msg = "Received invalid response checksum from Bravia"

\* thread t is inside `with lock:`
InWrapper(t) ==
    threads[t].pc \in {"locked", "throttled", "sleeping", "body", "open",
                       "sent", "returned", "stamped"}

\* thread t's handler is running
InHandler(t) == threads[t].pc \in {"body", "open", "sent"}

\* thread t's handler has the port open: its command exchange is in progress
InExchange(t) == threads[t].pc \in {"open", "sent"}

\* C19: a handler wrapped by throttled_request runs, and does its whole device
\* exchange (open port, write request, read reply), while its thread holds the
\* one global lock; so at most one exchange is in progress at any time, and
\* no thread writes or reads the link during another thread's exchange.
C19_ExchangeUnderLock ==
    /\ \A t \in Threads : InWrapper(t) => lock = t
    /\ \A t \in Threads : InExchange(t) => lock = t
    /\ Cardinality({t \in Threads : InExchange(t)}) <= 1

\* a thread has written its request and waits for the reply while another
\* thread's request waits for the lock
C19_Witness ==
    \E t, u \in Threads :
        /\ t # u
        /\ threads[t].pc = "sent"
        /\ threads[u].pc = "waiting"
        /\ lock = t

\* C20: once a handler has returned normally, no handler body starts before
\* COMMAND_INTERVAL after that return; last_request_time is written only by
\* the thread that holds the lock, after its handler returned normally; a
\* handler that raises leaves last_request_time as it was and releases the lock.
C20_Throttle ==
    [][ /\ \A t \in Threads :
            (threads[t].pc # "body" /\ threads'[t].pc = "body"
                /\ handler_returned_at # NoTime)
            => now >= handler_returned_at + COMMAND_INTERVAL
        /\ last_request_time' # last_request_time
            => \E t \in Threads :
                /\ lock = t
                /\ lock' = t
                /\ threads[t].pc = "returned"
        /\ \A t \in Threads :
            (InHandler(t) /\ threads'[t].pc = "idle")
            => /\ last_request_time' = last_request_time
               /\ lock' = NoThread
      ]_vars

\* a handler body has started after its thread slept, exactly
\* COMMAND_INTERVAL after the handler before it returned
C20_Witness ==
    \E t \in Threads :
        /\ threads[t].pc = "body"
        /\ threads[t].wake # NoTime
        /\ handler_returned_at # NoTime
        /\ now = handler_returned_at + COMMAND_INTERVAL

====
